---------------------------- MODULE Spec2Model ----------------------------
(***************************************************************************)
(* Network Time Clock (src/network-time-clock/network-time-clock.ino).     *)
(*                                                                         *)
(* The sketch keeps a UTC estimate inside an NTPClient object, re-syncs it *)
(* from loop() every ntpUpdateInterval milliseconds, converts it to New    *)
(* Zealand local time with a Timezone object and renders two centred 16    *)
(* cell lines on an LCD.                                                   *)
(*                                                                         *)
(* The Arduino libraries the sketch calls (NTPClient, Timezone, TimeLib)   *)
(* are not part of the repository.  Their operations are modelled here     *)
(* after the published library sources (arduino-libraries/NTPClient 3.2,   *)
(* JChristensen/Timezone 1.2, PaulStoffregen/Time 1.6) and are tied in     *)
(* MODEL_MAP.json to the lines of the sketch that declare or call them.    *)
(***************************************************************************)
EXTENDS Integers, Sequences, FiniteSets, TLC

Min(a, b) == IF a <= b THEN a ELSE b

(***************************************************************************)
(* TimeLib: calendar fields of a time_t (seconds since 1970-01-01).  Every  *)
(* time_t the model handles lies before 2038, so the 32 bit unsigned       *)
(* arithmetic of time_t never wraps and plain integers stand for it.       *)
(***************************************************************************)

\* makeTime() restricted to its date part: days since the epoch of y-m-d
DaysFromCivil(y, m, d) ==
  LET yy  == IF m <= 2 THEN y - 1 ELSE y
      era == yy \div 400
      yoe == yy - era * 400
      mp  == IF m > 2 THEN m - 3 ELSE m + 9
      doy == (153 * mp + 2) \div 5 + d - 1
      doe == yoe * 365 + yoe \div 4 - yoe \div 100 + doy
  IN  era * 146097 + doe - 719468

\* breakTime(): the calendar date of a day number
CivilFromDays(z) ==
  LET zz  == z + 719468
      era == zz \div 146097
      doe == zz - era * 146097
      yoe == (doe - doe \div 1460 + doe \div 36524 - doe \div 146096) \div 365
      doy == doe - (365 * yoe + yoe \div 4 - yoe \div 100)
      mp  == (5 * doy + 2) \div 153
      dd  == doy - (153 * mp + 2) \div 5 + 1
      mm  == IF mp < 10 THEN mp + 3 ELSE mp - 9
      yy  == yoe + era * 400 + (IF mm <= 2 THEN 1 ELSE 0)
  IN  [year |-> yy, month |-> mm, day |-> dd]

year(t)    == CivilFromDays(t \div 86400).year
month(t)   == CivilFromDays(t \div 86400).month
day(t)     == CivilFromDays(t \div 86400).day
hour(t)    == (t % 86400) \div 3600
minute(t)  == (t % 3600) \div 60
second(t)  == t % 60
\* Sunday is day 1
weekday(t) == (((t \div 86400) + 4) % 7) + 1

\* makeTime() of y-m-d hh:00:00
makeTime(y, m, d, hh) == DaysFromCivil(y, m, d) * 86400 + hh * 3600

(***************************************************************************)
(* Timezone: the two change rules of the sketch and the library's          *)
(* conversion.  week: Last = 0, First = 1; dow: Sun = 1; month: Jan = 1;   *)
(* offset in minutes.                                                      *)
(***************************************************************************)

\* the rule with the change on the first Sunday of October
nzDSTFirstSunOct == [abbrev |-> "NZDT", week |-> 1, dow |-> 1, month |-> 10,
                     hour |-> 2, offset |-> 780]

nzDST == [abbrev |-> "NZDT", week |-> 0, dow |-> 1, month |-> 9,
          hour |-> 2, offset |-> 780]

nzSTD == [abbrev |-> "NZST", week |-> 1, dow |-> 1, month |-> 4,
          hour |-> 3, offset |-> 720]

\* Timezone::toTime_t: the rule's change instant in year yr, in the local
\* time the rule is written in
toTime_t(r, yr) ==
  LET last == r.week = 0
      m0   == IF last THEN r.month + 1 ELSE r.month
      m    == IF m0 > 12 THEN 1 ELSE m0
      y    == IF m0 > 12 THEN yr + 1 ELSE yr
      w    == IF last THEN 1 ELSE r.week
      t    == makeTime(y, m, 1, r.hour)
      t2   == t + (((r.dow - weekday(t) + 7) % 7) + (w - 1) * 7) * 86400
  IN  IF last THEN t2 - 7 * 86400 ELSE t2

\* Timezone::calcTimeChanges: the change points of year yr
calcTimeChanges(yr) ==
  LET dl == toTime_t(nzDST, yr)
      sl == toTime_t(nzSTD, yr)
  IN  [dstLoc |-> dl, stdLoc |-> sl,
       dstUTC |-> dl - nzSTD.offset * 60,
       stdUTC |-> sl - nzDST.offset * 60]

\* Timezone nzTime(nzDST, nzSTD): no change points calculated yet
TimezoneInit == [dstLoc |-> 0, stdLoc |-> 0, dstUTC |-> 0, stdUTC |-> 0]

\* the change points after a call that takes a UTC instant
RecalcForUTC(tz, utc) ==
  IF year(utc) # year(tz.dstUTC) THEN calcTimeChanges(year(utc)) ELSE tz

\* the change points after a call that takes a local time
RecalcForLocal(tz, local) ==
  IF year(local) # year(tz.dstLoc) THEN calcTimeChanges(year(local)) ELSE tz

\* Timezone::utcIsDST
utcIsDST(tz, utc) ==
  LET c == RecalcForUTC(tz, utc)
  IN  IF c.stdUTC = c.dstUTC THEN FALSE
      ELSE IF c.stdUTC > c.dstUTC
           THEN utc >= c.dstUTC /\ utc < c.stdUTC
           ELSE ~(utc >= c.stdUTC /\ utc < c.dstUTC)

\* Timezone::locIsDST
locIsDST(tz, local) ==
  LET c == RecalcForLocal(tz, local)
  IN  IF c.stdUTC = c.dstUTC THEN FALSE
      ELSE IF c.stdLoc > c.dstLoc
           THEN local >= c.dstLoc /\ local < c.stdLoc
           ELSE ~(local >= c.stdLoc /\ local < c.dstLoc)

\* Timezone::toLocal
toLocal(tz, utc) ==
  IF utcIsDST(tz, utc) THEN utc + nzDST.offset * 60
                       ELSE utc + nzSTD.offset * 60

(***************************************************************************)
(* Date formatting.  A C string is a sequence of one-character strings.    *)
(***************************************************************************)

monthShortNames ==
  << <<"J","a","n">>, <<"F","e","b">>, <<"M","a","r">>, <<"A","p","r">>,
     <<"M","a","y">>, <<"J","u","n">>, <<"J","u","l">>, <<"A","u","g">>,
     <<"S","e","p">>, <<"O","c","t">>, <<"N","o","v">>, <<"D","e","c">> >>

weekdayShortNames ==
  << <<"S","u","n">>, <<"M","o","n">>, <<"T","u","e">>, <<"W","e","d">>,
     <<"T","h","u">>, <<"F","r","i">>, <<"S","a","t">> >>

\* getDaySuffix without line 80
getDaySuffixNoTeens(d) ==
  CASE d % 10 = 1 -> <<"s","t">>
    [] d % 10 = 2 -> <<"n","d">>
    [] d % 10 = 3 -> <<"r","d">>
    [] OTHER      -> <<"t","h">>

getDaySuffix(d) ==
  IF d >= 11 /\ d <= 13 THEN <<"t","h">>
  ELSE CASE d % 10 = 1 -> <<"s","t">>
         [] d % 10 = 2 -> <<"n","d">>
         [] d % 10 = 3 -> <<"r","d">>
         [] OTHER      -> <<"t","h">>

Digit(n) == <<"0","1","2","3","4","5","6","7","8","9">>[n + 1]

\* printf "%d" of a number 0..99
FmtD(n) == IF n < 10 THEN <<Digit(n)>> ELSE <<Digit(n \div 10), Digit(n % 10)>>

\* printf "%02d" of a number 0..99
Fmt02(n) == <<Digit(n \div 10), Digit(n % 10)>>

\* snprintf(buf, size, ...): at most size - 1 characters are stored
Snprintf(size, text) == SubSeq(text, 1, Min(Len(text), size - 1))

Blank16 == [i \in 1..16 |-> " "]

\* memcpy(line + at, src, strlen(src)) into a char[17] holding 16 cells and
\* the terminator: cell k of the line (counted from 0) is element k + 1
Memcpy(line, at, src) ==
  [i \in 1..16 |->
     IF i - 1 >= at /\ i - 1 < at + Len(src) THEN src[i - at] ELSE line[i]]

\* whether that memcpy writes outside cells 0..15
WritesOutside(at, src) == Len(src) > 0 /\ (at < 0 \/ at + Len(src) > 16)

\* displayDateTime, lines 147-149: the date token
dateStr(w, d, m) ==
  Snprintf(17, weekdayShortNames[w + 1] \o <<" ">> \o FmtD(d)
               \o getDaySuffix(d) \o <<" ">> \o monthShortNames[m + 1])

\* line 153 with the left padding rounded up
DatePadRoundedUp(len) == (16 - len + 1) \div 2

\* line 153
DatePad(len) == (16 - len) \div 2

\* lines 152-156
dateLine(w, d, m) ==
  Memcpy(Blank16, DatePad(Len(dateStr(w, d, m))), dateStr(w, d, m))

\* lines 159-160
h12(h) == IF h % 12 = 0 THEN 12 ELSE h % 12

\* line 162
timeNumStr(h, min, s) ==
  Snprintf(12, FmtD(h12(h)) \o <<":">> \o Fmt02(min) \o <<":">> \o Fmt02(s))

\* line 165 with > for >=
statusStrNoonAM(h) == IF h > 12 THEN <<"P","M">> ELSE <<"A","M">>

\* line 165
statusStr(h) == IF h >= 12 THEN <<"P","M">> ELSE <<"A","M">>

\* line 170
timeStart(timeLen) == (16 - timeLen - 3) \div 2

\* line 171
statusPos(timeLen) == timeStart(timeLen) + timeLen + 1

\* lines 168-175
timeLine(h, min, s) ==
  LET num == timeNumStr(h, min, s)
  IN  Memcpy(Memcpy(Blank16, timeStart(Len(num)), num),
             statusPos(Len(num)), statusStr(h))

\* whether one of the three copies of displayDateTime leaves cells 0..15
LayoutOverflow(w, d, m, h, min, s) ==
  LET ds  == dateStr(w, d, m)
      num == timeNumStr(h, min, s)
  IN  \/ WritesOutside(DatePad(Len(ds)), ds)
      \/ WritesOutside(timeStart(Len(num)), num)
      \/ WritesOutside(statusPos(Len(num)), statusStr(h))

(***************************************************************************)
(* The tick counter.  millis() is a 32 bit unsigned count of milliseconds. *)
(* Every delay of the sketch and of NTPClient is a multiple of 2 ms, so    *)
(* the model counts millis() in ticks of 2 ms: a tick value is in          *)
(* 0 .. 2^31 - 1 and the counter wraps after 2^31 ticks = 2^32 ms.         *)
(***************************************************************************)

Ticks(ms) == ms \div 2

\* (a + k) mod 2^32 ms, for a tick value a and a duration k
TickAdd(a, k) ==
  IF a > 2147483647 - k THEN a - (2147483647 - k) - 1 ELSE a + k

\* (a - b) mod 2^32 ms: the unsigned difference millis() - b
TickSub(a, b) == IF a >= b THEN a - b ELSE (a - b) + 2147483647 + 1

ntpUpdateInterval == 600000

displayDelay == 1000

(***************************************************************************)
(* Bounds of the model                                                     *)
(***************************************************************************)

\* failed fetches in one run
MaxFailures == 3

\* ticks of run time after which the model stops
Horizon == 303000

\* UTC at the tick the model starts from (2025-07-16 00:00:00)
BootEpoch == 1752624000

\* the server's clock gains 1 ms on millis() every DriftDiv ms
DriftDiv == 100

\* syncs at probe instants in one run
MaxTzRuns == 2

\* the year the probe instants lie in and around
ProbeYear == 2025

\* the poll of forceUpdate at which the server's reply is seen, when it
\* comes: a fetch then takes as long as one delay(displayDelay), and the
\* checks of line 245 fall on whole seconds after the last sync
ReplyPoll == 100

\* millis() when setup() reaches the first sync: setup() first waits for the
\* serial port and for Wi-Fi, for a time the sketch does not bound
StartTicks == {Ticks(3000), Ticks(700000), 2147483647 - Ticks(2540) + 1}

(***************************************************************************)
(* NTPClient timeClient(ntpUDP, "time.google.com", 0)                      *)
(***************************************************************************)

\* the library's default interval between the fetches of update()
ntpClientUpdateInterval == 60000

\* what the server answers to a request answered up ticks into the run
ServerEpoch(up) == BootEpoch + (2 * up + (2 * up) \div DriftDiv) \div 1000

NTPClientInit == [currentEpoc |-> 0, lastUpdate |-> 0]

\* NTPClient::getEpochTime at tick t
getEpochTime(c, t) == c.currentEpoc + TickSub(t, c.lastUpdate) \div Ticks(1000)

\* NTPClient::forceUpdate called at tick t, the reply seen at poll number
\* poll (102: no reply within the 102 polls it makes) and carrying the UTC
\* answer.  It polls every 10 ms and gives up when 101 polls have passed.
\* ok: what it returns; ntp: the client after it; t: millis() when it
\* returns; dt: the ticks it took.
forceUpdate(c, t, poll, answer) ==
  IF poll - 1 > 100
  THEN [ok |-> FALSE, ntp |-> c,
        t |-> TickAdd(t, Ticks(10) * 102), dt |-> Ticks(10) * 102]
  ELSE [ok |-> TRUE,
        ntp |-> [currentEpoc |-> answer,
                 lastUpdate  |-> TickSub(TickAdd(t, Ticks(10) * poll),
                                         Ticks(10) * (poll + 1))],
        t |-> TickAdd(t, Ticks(10) * poll), dt |-> Ticks(10) * poll]

\* the answer to a request made up ticks into the run and seen at poll
Answer(up, poll) == ServerEpoch(up + Ticks(10) * poll)

\* NTPClient::update: whether it fetches at tick t
UpdateNeeded(c, t) ==
  \/ TickSub(t, c.lastUpdate) >= Ticks(ntpClientUpdateInterval)
  \/ c.lastUpdate = 0

(***************************************************************************)
(* The sketch                                                              *)
(***************************************************************************)

\* formatTimeForSerial: the fields the line is printed from
formatTimeForSerial(t) ==
  [wd |-> weekdayShortNames[weekday(t)], mon |-> monthShortNames[month(t)],
   day |-> day(t), hour |-> hour(t), minute |-> minute(t),
   second |-> second(t), year |-> year(t)]

\* printSyncInfo: the record written to Serial
printSyncInfo(c, tz, t) ==
  LET utc   == getEpochTime(c, t)
      local == toLocal(tz, utc)
      isDST == locIsDST(RecalcForUTC(tz, utc), utc)
      tcr   == IF isDST THEN nzDST ELSE nzSTD
  IN  [kind |-> "sync", utc |-> utc, local |-> local,
       utcText |-> formatTimeForSerial(utc),
       localText |-> formatTimeForSerial(local),
       isDST |-> isDST, offset |-> tcr.offset, abbrev |-> tcr.abbrev]

\* the change points nzTime holds after printSyncInfo
TzAfterPrint(c, tz, t) ==
  LET utc == getEpochTime(c, t)
  IN  RecalcForLocal(RecalcForUTC(tz, utc), utc)

\* displayDateTime, lines 140-145: the fields of the local time
LocalFields(local) ==
  [w |-> weekday(local) - 1, m |-> month(local) - 1, d |-> day(local),
   h |-> hour(local), min |-> minute(local), s |-> second(local)]

\* displayDateTime, lines 147-181: what the LCD shows for these fields
LcdFor(f) ==
  [line0 |-> dateLine(f.w, f.d, f.m), line1 |-> timeLine(f.h, f.min, f.s),
   suffix |-> getDaySuffix(f.d),
   overflow |-> LayoutOverflow(f.w, f.d, f.m, f.h, f.min, f.s)]

(***************************************************************************)
(* State                                                                   *)
(***************************************************************************)

VARIABLES
  pc,        \* where the sketch is: "setup" (line 227), "update" (242),
             \* "check" (245), "display" (258); "tz", "tzshow" and "fields",
             \* "shown" in the runs on probe instants and on given fields
  now,       \* millis(), in ticks
  uptime,    \* ticks since the model started, never wrapping
  lastSync,  \* the sketch's lastSync, in ticks
  timeClient,\* the NTPClient object: currentEpoc, lastUpdate
  nzTime,    \* the change points the Timezone object holds
  fields,    \* the local fields displayDateTime last extracted
  lcd,       \* what displayDateTime last printed
  serial,    \* the last record printed to Serial
  fails,     \* failed fetches so far
  obs        \* observations of the current pass of loop()

vars == <<pc, now, uptime, lastSync, timeClient, nzTime, fields, lcd, serial,
          fails, obs>>

\* obs.update / obs.forced: "idle", "ok" or "fail": what update() and the
\* forced sync of this pass did; obs.due: the sync-due condition as line 245
\* evaluated it, obs.checkUp the run time of that evaluation; obs.estBefore
\* and obs.upBefore: getEpochTime() and the run time right before the last
\* fetch attempt; obs.syncUp: the run time at which lastSync was last
\* written (-1: never); obs.shown: the UTC displayDateTime read;
\* obs.checkTick: millis() at the evaluation of line 245; obs.prevCheckUp and
\* obs.prevForced: checkUp and forced of the pass before; obs.passes: passes
\* of loop() begun, counted up to 2; obs.setupOK: the outcome of the initial
\* sync; obs.estAtCheck: getEpochTime() when line 245 is evaluated;
\* obs.estKept: what getEpochTime() would return after the last fetch
\* attempt had the attempt not touched the client; obs.shownLocal: the
\* local time displayDateTime made of obs.shown; obs.runs: syncs at probe
\* instants so far
ObsInit ==
  [update |-> "idle", forced |-> "idle", due |-> FALSE, checkUp |-> -1,
   estBefore |-> 0, upBefore |-> 0, estAtCheck |-> 0, estKept |-> 0, syncUp |-> -1,
   shown |-> 0, shownUp |-> -1, passes |-> 0, checkTick |-> 0,
   prevCheckUp |-> -1, prevForced |-> "idle", setupOK |-> FALSE,
   shownLocal |-> 0, runs |-> 0]

NoFields == [w |-> 0, m |-> 0, d |-> 1, h |-> 0, min |-> 0, s |-> 0]

LcdInit == [line0 |-> Blank16, line1 |-> Blank16, suffix |-> <<>>,
            overflow |-> FALSE]

\* the polls the environment may choose for a fetch
Polls == IF fails < MaxFailures THEN {ReplyPoll, 102} ELSE {ReplyPoll}

Init ==
  /\ pc = "setup"
  /\ now \in StartTicks
  /\ uptime = 0
  /\ lastSync = 0
  /\ timeClient = NTPClientInit
  /\ nzTime = TimezoneInit
  /\ fields = NoFields
  /\ lcd = LcdInit
  /\ serial = [kind |-> "none"]
  /\ fails = 0
  /\ obs = ObsInit

(***************************************************************************)
(* setup(), lines 226-231: the initial sync                                *)
(***************************************************************************)

setup ==
  /\ pc = "setup"
  /\ \E poll \in Polls :
       LET r == forceUpdate(timeClient, now, poll, Answer(uptime, poll))
       IN  /\ now' = r.t
           /\ uptime' = uptime + r.dt
           /\ timeClient' = r.ntp
           /\ \/ /\ r.ok
                 /\ serial' = printSyncInfo(r.ntp, nzTime, r.t)
                 /\ nzTime' = TzAfterPrint(r.ntp, nzTime, r.t)
                 /\ fails' = fails
                 /\ obs' = [obs EXCEPT !.setupOK = TRUE]
              \/ /\ ~r.ok
                 /\ serial' = [kind |-> "Initial NTP sync failed"]
                 /\ nzTime' = nzTime
                 /\ fails' = fails + 1
                 /\ obs' = obs
  /\ pc' = "update"
  /\ UNCHANGED <<lastSync, fields, lcd>>

(***************************************************************************)
(* loop(), line 242: timeClient.update()                                   *)
(***************************************************************************)

loopUpdate ==
  /\ pc = "update"
  /\ uptime <= Horizon
  /\ \/ /\ UpdateNeeded(timeClient, now)
        /\ \E poll \in Polls :
             LET r == forceUpdate(timeClient, now, poll, Answer(uptime, poll))
             IN  /\ now' = r.t
                 /\ uptime' = uptime + r.dt
                 /\ timeClient' = r.ntp
                 /\ fails' = IF r.ok THEN fails ELSE fails + 1
                 /\ obs' = [obs EXCEPT
                      !.update = IF r.ok THEN "ok" ELSE "fail",
                      !.forced = "idle", !.prevForced = obs.forced,
                      !.prevCheckUp = obs.checkUp,
                      !.estBefore = getEpochTime(timeClient, now),
                      !.estKept = getEpochTime(timeClient, r.t),
                      !.upBefore = uptime,
                      !.passes = Min(obs.passes + 1, 2)]
     \/ /\ ~UpdateNeeded(timeClient, now)
        /\ obs' = [obs EXCEPT !.update = "idle", !.forced = "idle",
                              !.prevForced = obs.forced,
                              !.prevCheckUp = obs.checkUp,
                              !.passes = Min(obs.passes + 1, 2)]
        /\ UNCHANGED <<now, uptime, timeClient, fails>>
  /\ pc' = "check"
  /\ UNCHANGED <<lastSync, nzTime, fields, lcd, serial>>

(***************************************************************************)
(* loop(), lines 245-255: the forced sync                                  *)
(***************************************************************************)

\* line 245 with >= for >
SyncDueAtBoundary(t, last) == TickSub(t, last) >= Ticks(ntpUpdateInterval)

\* line 245 with a scheduler that is due until the first sync is recorded
SyncDueUntilSynced(t, last) ==
  last = 0 \/ TickSub(t, last) > Ticks(ntpUpdateInterval)

\* line 245
SyncDue(t, last) == TickSub(t, last) > Ticks(ntpUpdateInterval)

\* line 249 left out
RecordSyncLeftOut(t, last) == last

\* line 249: what lastSync becomes when the forced sync succeeded at tick t
RecordSync(t, last) == t

\* lines 251-254: what lastSync becomes when the forced sync failed at tick t
KeepSync(t, last) == last

loopCheck ==
  /\ pc = "check"
  /\ \/ /\ SyncDue(now, lastSync)
        /\ \E poll \in Polls :
             LET r == forceUpdate(timeClient, now, poll, Answer(uptime, poll))
             IN  /\ now' = r.t
                 /\ uptime' = uptime + r.dt
                 /\ timeClient' = r.ntp
                 /\ \/ /\ r.ok
                       /\ lastSync' = RecordSync(r.t, lastSync)
                       /\ serial' = printSyncInfo(r.ntp, nzTime, r.t)
                       /\ nzTime' = TzAfterPrint(r.ntp, nzTime, r.t)
                       /\ fails' = fails
                       /\ obs' = [obs EXCEPT
                            !.forced = "ok", !.due = TRUE,
                            !.checkUp = uptime, !.checkTick = now,
                            !.estAtCheck = getEpochTime(timeClient, now),
                            !.estBefore = getEpochTime(timeClient, now),
                            !.estKept = getEpochTime(timeClient, r.t),
                            !.upBefore = uptime,
                            !.syncUp = uptime + r.dt]
                    \/ /\ ~r.ok
                       /\ lastSync' = KeepSync(r.t, lastSync)
                       /\ serial' = [kind |-> "NTP sync failed"]
                       /\ nzTime' = nzTime
                       /\ fails' = fails + 1
                       /\ obs' = [obs EXCEPT
                            !.forced = "fail", !.due = TRUE,
                            !.checkUp = uptime, !.checkTick = now,
                            !.estAtCheck = getEpochTime(timeClient, now),
                            !.estBefore = getEpochTime(timeClient, now),
                            !.estKept = getEpochTime(timeClient, r.t),
                            !.upBefore = uptime]
     \/ /\ ~SyncDue(now, lastSync)
        /\ obs' = [obs EXCEPT !.forced = "idle", !.due = FALSE,
                              !.checkUp = uptime, !.checkTick = now,
                              !.estAtCheck = getEpochTime(timeClient, now)]
        /\ UNCHANGED <<now, uptime, timeClient, lastSync, serial, nzTime,
                       fails>>
  /\ pc' = "display"
  /\ UNCHANGED <<fields, lcd>>

(***************************************************************************)
(* loop(), lines 258-259: displayDateTime() and delay(displayDelay)        *)
(***************************************************************************)

displayDateTime ==
  LET utc   == getEpochTime(timeClient, now)
      local == toLocal(nzTime, utc)
  IN  /\ nzTime' = RecalcForUTC(nzTime, utc)
      /\ fields' = LocalFields(local)
      /\ lcd' = LcdFor(LocalFields(local))
      /\ obs' = [obs EXCEPT !.shown = utc, !.shownUp = uptime,
                            !.shownLocal = local]

loopDisplay ==
  /\ pc = "display"
  /\ displayDateTime
  /\ now' = TickAdd(now, Ticks(displayDelay))
  /\ uptime' = uptime + Ticks(displayDelay)
  /\ pc' = "update"
  /\ UNCHANGED <<lastSync, timeClient, serial, fails>>

Next == setup \/ loopUpdate \/ loopCheck \/ loopDisplay

Spec == Init /\ [][Next]_vars

(***************************************************************************)
(* Scheduler claims                                                        *)
(***************************************************************************)

\* C1: once a forced sync of loop() has recorded lastSync = T, line 245 is
\* false at every later check whose tick is <= T + ntpUpdateInterval, and
\* true at the first check whose tick is > T + ntpUpdateInterval.
C1_WaitsOneInterval ==
  (obs.syncUp >= 0 /\ obs.checkUp >= obs.syncUp) =>
     /\ obs.checkUp <= obs.syncUp + Ticks(ntpUpdateInterval) => ~obs.due
     /\ (/\ obs.checkUp > obs.syncUp + Ticks(ntpUpdateInterval)
         /\ obs.prevCheckUp <= obs.syncUp + Ticks(ntpUpdateInterval))
        => obs.due

\* a check exactly at T + ntpUpdateInterval found the sync not due, and the
\* check of the next pass finds it due
C1_Witness ==
  /\ obs.syncUp >= 0
  /\ obs.prevCheckUp = obs.syncUp + Ticks(ntpUpdateInterval)
  /\ obs.checkUp > obs.syncUp + Ticks(ntpUpdateInterval)
  /\ obs.due
  /\ pc = "display"

\* C2: a failed forced sync leaves lastSync unchanged, so line 245 is still
\* true at the check of the very next pass and a retry is made there.
C2_RetriesNextPass ==
  (pc = "display" /\ obs.prevForced = "fail") => obs.due

\* C3 as claimed: the first check of line 245 after startup is true.
C3_StartsDue ==
  (pc = "display" /\ obs.passes = 1) => obs.due

\* C3, amended: with lastSync = 0 the first check of line 245 is true exactly
\* when millis() at that check exceeds ntpUpdateInterval, whatever the
\* outcome of the initial sync; a forced attempt is made in that pass exactly
\* then.
C3_FirstCheckByUptime ==
  (pc = "display" /\ obs.passes = 1) =>
     /\ obs.due <=> obs.checkTick > Ticks(ntpUpdateInterval)
     /\ obs.forced # "idle" <=> obs.checkTick > Ticks(ntpUpdateInterval)

\* the initial sync failed and the first check of loop() still is not due
C3_Witness ==
  /\ pc = "display"
  /\ obs.passes = 1
  /\ ~obs.setupOK
  /\ ~obs.due
  /\ obs.forced = "idle"

\* C4: across a pass whose forced sync fails, the UTC displayDateTime reads is
\* the estimate before the attempt plus the elapsed time: the difference is
\* the elapsed milliseconds over 1000, rounded down or up, and never negative.
C4_FailedSyncKeepsClock ==
  (pc = "update" /\ obs.forced = "fail") =>
     LET ms == 2 * (obs.shownUp - obs.upBefore)
     IN  /\ obs.shownUp >= obs.upBefore
         /\ obs.shown - obs.estBefore \in {ms \div 1000, ms \div 1000 + 1}

\* C9 as claimed: in loop() the NTP client's state is replaced only by the
\* forced sync, on a pass where line 245 holds, and lastSync is then reset to
\* the current tick; update() never replaces it.
C9_OnlyForcedSyncCorrects ==
  [][(pc # "setup" /\ timeClient' # timeClient) =>
       (pc = "check" /\ SyncDue(now, lastSync) /\ lastSync' = now')]_vars

\* C9, amended: in loop() the NTP client's state is replaced either by the
\* forced sync, on a pass where line 245 holds and with lastSync reset to the
\* current tick, or by update() at line 242, which leaves lastSync alone and
\* fetches only when no fetch has succeeded yet or at least 60000 ms have
\* passed since the last one that did.
C9_ForcedSyncOrUpdate ==
  [][(pc # "setup" /\ timeClient' # timeClient) =>
       \/ /\ pc = "check"
          /\ TickSub(now, lastSync) > Ticks(600000)
          /\ lastSync' = now'
       \/ /\ pc = "update"
          /\ lastSync' = lastSync
          /\ \/ timeClient.lastUpdate = 0
             \/ TickSub(now, timeClient.lastUpdate) >= Ticks(60000)]_vars

\* after a forced sync was recorded and while line 245 is false, update()
\* has stepped the estimate: line 245 reads another UTC than the one the
\* client would have given without the fetch
C9_Witness ==
  /\ pc = "display"
  /\ obs.update = "ok"
  /\ obs.syncUp >= 0
  /\ ~obs.due
  /\ obs.estAtCheck # obs.estKept

(***************************************************************************)
(* The conversion at probe instants: the server's answer is an instant at  *)
(* 14:00 UTC (02:00 NZST, 03:00 NZDT) of a day of the weeks in which the   *)
(* rules change, a few seconds or 12 or 13 hours off it, at a change of    *)
(* year or in mid-winter; the sketch reports it (lines 247-250) and        *)
(* displays it (lines 258-259).                                            *)
(***************************************************************************)

ProbeInstants ==
  { makeTime(ProbeYear, 9, 24, 14) + 86400 * d + k :
       d \in -1..5, k \in {-3, -2, -1, 0, 1} }
  \cup { makeTime(ProbeYear, 4, 1, 14) + 86400 * d + k :
       d \in -1..5, k \in {-3, -2, -1, 0, 1} }
  \cup { makeTime(ProbeYear, 9, 24, 14) + 86400 * d + k :
       d \in {-7, 0, 3, 6, 13}, k \in {43198, 43199, 46798, 46799} }
  \cup { makeTime(ProbeYear, 4, 1, 14) + 86400 * d + k :
       d \in {-7, 0, 3, 6, 13}, k \in {43198, 43199, 46798, 46799} }
  \cup { makeTime(y, 1, 1, 0) + k :
       y \in {ProbeYear, ProbeYear + 1}, k \in {-3, -2, -1, 0} }
  \cup { makeTime(ProbeYear, 7, 1, 0) }

TzInit ==
  /\ pc = "tz"
  /\ now = Ticks(3000)
  /\ uptime = 0
  /\ lastSync = 0
  /\ timeClient = NTPClientInit
  /\ nzTime = TimezoneInit
  /\ fields = NoFields
  /\ lcd = LcdInit
  /\ serial = [kind |-> "none"]
  /\ fails = 0
  /\ obs = ObsInit

\* lines 247-250 with the server answering u
tzSync ==
  /\ pc = "tz"
  /\ obs.runs < MaxTzRuns
  /\ \E u \in ProbeInstants :
       LET r == forceUpdate(timeClient, now, ReplyPoll, u)
       IN  /\ now' = r.t
           /\ uptime' = uptime + r.dt
           /\ timeClient' = r.ntp
           /\ lastSync' = RecordSync(r.t, lastSync)
           /\ serial' = printSyncInfo(r.ntp, nzTime, r.t)
           /\ nzTime' = TzAfterPrint(r.ntp, nzTime, r.t)
  /\ obs' = [obs EXCEPT !.runs = obs.runs + 1]
  /\ pc' = "tzshow"
  /\ UNCHANGED <<fields, lcd, fails>>

\* lines 258-259
tzShow ==
  /\ pc = "tzshow"
  /\ displayDateTime
  /\ now' = TickAdd(now, Ticks(displayDelay))
  /\ uptime' = uptime + Ticks(displayDelay)
  /\ pc' = "tz"
  /\ UNCHANGED <<lastSync, timeClient, serial, fails>>

TzNext == tzSync \/ tzShow

SpecTz == TzInit /\ [][TzNext]_vars

\* the day of September 24..30 of year y that is a Sunday
RefLastSunSep(y) ==
  CHOOSE d \in 24..30 : (DaysFromCivil(y, 9, d) + 4) % 7 = 0

\* the day of April 1..7 of year y that is a Sunday
RefFirstSunApr(y) ==
  CHOOSE d \in 1..7 : (DaysFromCivil(y, 4, d) + 4) % 7 = 0

\* 02:00 at UTC+12 on the last Sunday of September, as a UTC instant
RefDstStart(y) ==
  DaysFromCivil(y, 9, RefLastSunSep(y)) * 86400 + 2 * 3600 - 12 * 3600

\* 03:00 at UTC+13 on the first Sunday of April, as a UTC instant
RefStdStart(y) ==
  DaysFromCivil(y, 4, RefFirstSunApr(y)) * 86400 + 3 * 3600 - 13 * 3600

RefInDst(utc) ==
  \E y \in (ProbeYear - 1)..(ProbeYear + 1) :
     utc >= RefDstStart(y) /\ utc < RefStdStart(y + 1)

RefOffset(utc) == IF RefInDst(utc) THEN 13 * 3600 ELSE 12 * 3600

\* C5: with the NZ rule pair the conversion applies +780 min exactly in
\* [last Sunday of September 02:00 NZST, first Sunday of April 03:00 NZDT)
\* across the change of year, and +720 min elsewhere: the boundary instant
\* itself already has the new rule, the second before it the old one.
C5_DstInterval ==
  /\ serial.kind = "sync" => serial.local = serial.utc + RefOffset(serial.utc)
  /\ obs.shownUp >= 0 => obs.shownLocal = obs.shown + RefOffset(obs.shown)

\* the sync reported the very instant of a DST start, converted at +780, and
\* the pass before displayed the second before it at +720
C5_Witness ==
  /\ pc = "tzshow"
  /\ serial.utc = RefDstStart(ProbeYear)
  /\ obs.shown = RefDstStart(ProbeYear) - 1
  /\ serial.local = serial.utc + 13 * 3600
  /\ obs.shownLocal = obs.shown + 12 * 3600

\* C10: a sync record is consistent: the reported DST flag, offset and label
\* name the rule toLocal applied, so Local - UTC is the reported offset.
C10_RecordConsistent ==
  serial.kind = "sync" =>
     /\ serial.local - serial.utc = serial.offset * 60
     /\ serial.isDST <=> serial.offset = 780
     /\ serial.abbrev = (IF serial.isDST THEN "NZDT" ELSE "NZST")

(***************************************************************************)
(* The layout at every local date and at the local times of every hour:    *)
(* displayDateTime has extracted the fields (lines 140-145) and formats    *)
(* and prints them (lines 147-181).                                        *)
(***************************************************************************)

FmtInputs ==
  { [w |-> w, m |-> m, d |-> d, h |-> 0, min |-> 0, s |-> 0] :
       w \in 0..6, m \in 0..11, d \in 1..31 }
  \cup { [w |-> 1, m |-> 6, d |-> 15, h |-> h, min |-> min, s |-> sec] :
       h \in 0..23, min \in 0..59, sec \in {0, 9, 59} }
  \cup { [w |-> 1, m |-> 6, d |-> 15, h |-> h, min |-> min, s |-> sec] :
       h \in 0..23, min \in {0, 5, 59}, sec \in 0..59 }

FmtInit ==
  /\ pc = "fields"
  /\ fields \in FmtInputs
  /\ now = Ticks(3000)
  /\ uptime = 0
  /\ lastSync = 0
  /\ timeClient = NTPClientInit
  /\ nzTime = TimezoneInit
  /\ lcd = LcdInit
  /\ serial = [kind |-> "none"]
  /\ fails = 0
  /\ obs = ObsInit

\* lines 147-181
formatAndPrint ==
  /\ pc = "fields"
  /\ lcd' = LcdFor(fields)
  /\ pc' = "shown"
  /\ UNCHANGED <<now, uptime, lastSync, timeClient, nzTime, fields, serial,
                 fails, obs>>

FmtNext == formatAndPrint

SpecFmt == FmtInit /\ [][FmtNext]_vars

\* the cells of a line from cell from (counted from 0) on, len of them
Cells(line, from, len) == SubSeq(line, from + 1, from + len)

\* every cell of the line outside from .. from + len - 1 is blank
BlankOutside(line, from, len) ==
  \A i \in 1..Len(line) : (i - 1 < from \/ i - 1 >= from + len) => line[i] = " "

\* "<Weekday> <Day><Suffix> <Month>" of the fields
RefDateToken(f) ==
  weekdayShortNames[f.w + 1] \o <<" ">> \o FmtD(f.d) \o getDaySuffix(f.d)
     \o <<" ">> \o monthShortNames[f.m + 1]

\* C6: the date line is 16 cells: the whole token starts at cell
\* floor((16 - length) / 2), every other cell is blank, an odd cell left
\* over is on the right, and no copy leaves cells 0..15.
C6_DateLineCentred ==
  pc = "shown" =>
     LET tok   == RefDateToken(fields)
         left  == (16 - Len(tok)) \div 2
         right == 16 - Len(tok) - left
     IN  /\ Len(lcd.line0) = 16
         /\ Len(tok) <= 16
         /\ Cells(lcd.line0, left, Len(tok)) = tok
         /\ BlankOutside(lcd.line0, left, Len(tok))
         /\ right - left \in {0, 1}
         /\ ~lcd.overflow

\* a token of odd length, "Mon 1st Jul", shown with 2 blanks before it and 3
\* after it
C6_Witness ==
  /\ pc = "shown"
  /\ fields.w = 1 /\ fields.d = 1 /\ fields.m = 6
  /\ lcd.line0 = <<" "," ","M","o","n"," ","1","s","t"," ","J","u","l",
                   " "," "," ">>

\* the hour of the 12 hour clock
RefHour12(h) == IF h = 0 THEN 12 ELSE IF h > 12 THEN h - 12 ELSE h

\* "<H>:<MM>:<SS>" of the fields
RefTimeToken(f) ==
  FmtD(RefHour12(f.h)) \o <<":">> \o Fmt02(f.min) \o <<":">> \o Fmt02(f.s)

\* C7: the time line is 16 cells: the token "<H>:<MM>:<SS>" of the 12 hour
\* clock starts at cell floor((16 - length - 3) / 2), one blank follows, then
\* AM when hour < 12 and PM otherwise; every other cell is blank and no copy
\* leaves cells 0..15.
C7_TimeLineLayout ==
  pc = "shown" =>
     LET tok   == RefTimeToken(fields)
         start == (16 - Len(tok) - 3) \div 2
         mer   == IF fields.h < 12 THEN <<"A","M">> ELSE <<"P","M">>
     IN  /\ Len(lcd.line1) = 16
         /\ Cells(lcd.line1, start, Len(tok) + 3) = tok \o <<" ">> \o mer
         /\ BlankOutside(lcd.line1, start, Len(tok) + 3)
         /\ start >= 0 /\ start + Len(tok) + 3 <= 16
         /\ ~lcd.overflow

\* noon, 12:05:09, shown as "  12:05:09 PM   "
C7_Witness ==
  /\ pc = "shown"
  /\ fields.h = 12 /\ fields.min = 5 /\ fields.s = 9
  /\ lcd.line1 = <<" "," ","1","2",":","0","5",":","0","9"," ","P","M",
                   " "," "," ">>

\* the suffix of day d as the rule is stated
RefSuffix(d) ==
  IF d \in {11, 12, 13} THEN <<"t","h">>
  ELSE IF d % 10 = 1 THEN <<"s","t">>
  ELSE IF d % 10 = 2 THEN <<"n","d">>
  ELSE IF d % 10 = 3 THEN <<"r","d">>
  ELSE <<"t","h">>

\* C8: for every day 1..31 getDaySuffix gives "th" for 11, 12 and 13, else
\* "st", "nd", "rd" for a last digit 1, 2, 3, and "th" otherwise.
C8_DaySuffix ==
  pc = "shown" =>
     /\ fields.d \in 1..31
     /\ lcd.suffix = RefSuffix(fields.d)

\* day 12 got "th"
C8_Witness ==
  /\ pc = "shown"
  /\ fields.d = 12
  /\ lcd.suffix = <<"t","h">>

=============================================================================
